---------------------------- MODULE Spec2Model ----------------------------
(***************************************************************************)
(* The pyenv locator of native_locator/src/pyenv.rs: resolution of the    *)
(* pyenv root and of the pyenv binary, classification of the names of the *)
(* version directories, and the locator's registry (gather / is_known /   *)
(* track_if_compatible / report).                                         *)
(*                                                                         *)
(* A text (String, OsString, PathBuf) is a sequence of characters.  An    *)
(* ASCII character is written as the string of that character, any other  *)
(* Unicode scalar value as "U+hhhh", and a byte of an OsString that is no *)
(* part of valid UTF-8 as "0xFF".  Option<T> is a sequence of at most one *)
(* T; an operation that panics yields Panic.                               *)
(***************************************************************************)
EXTENDS Integers, Sequences, FiniteSets, TLC

VARIABLES
    platform,       \* the build: "unix" or "windows" (#[cfg(unix)] / #[cfg(windows)])
    env_pyenv_root, \* Environment::get_env_var("PYENV_ROOT"): Option<String>
    env_pyenv,      \* Environment::get_env_var("PYENV"): Option<String>
    user_home,      \* Environment::get_user_home(): Option<PathBuf>
    known_locations,\* Environment::get_know_global_search_locations(): sequence of PathBuf
    files,          \* the files on disk, each by its resolved path
    versions,       \* resolved directory path -> what fs::read_dir yields for it, in its order
    python_binaries,\* directory path -> the executable find_python_binary_path finds for it
    pyvenv_cfgs,    \* executable path -> the version find_and_parse_pyvenv_cfg finds for it
    environments,   \* PyEnv.environments: executable path string -> PythonEnvironment
    manager,        \* PyEnv.manager: Option<EnvManager>
    call,           \* the operation invoked last, with its argument
    ret,            \* what that operation returned
    sink,           \* what the MessageDispatcher received, in order, when the last call
                    \* was report(); empty after any other call
    phase           \* "uninitialized" until gather() has been called, then "ready";
                    \* "panicked" once a call has panicked

vars == <<platform, env_pyenv_root, env_pyenv, user_home, known_locations, files,
          versions, python_binaries, pyvenv_cfgs, environments, manager, call, ret,
          sink, phase>>

host == <<platform, env_pyenv_root, env_pyenv, user_home, known_locations, files,
          versions, python_binaries, pyvenv_cfgs>>

registry == <<environments, manager>>

None == << >>
Some(x) == << x >>
IsSome(o) == o # None
Unwrap(o) == o[1]

\* What an operation yields when an unwrap() inside it panics.
Panic == <<"panic", "unwrap">>
IsPanic(o) == Len(o) = 2

(***************************************************************************)
(* Characters                                                              *)
(***************************************************************************)
RECURSIVE Flatten(_)
Flatten(ss) == IF ss = << >> THEN << >> ELSE Head(ss) \o Flatten(Tail(ss))

InvalidByte == "0xFF"

\* U+FFFD, which to_string_lossy puts in the place of a byte that is not UTF-8
REPLACEMENT_CHARACTER == "U+FFFD"

AsciiDigits == {"0", "1", "2", "3", "4", "5", "6", "7", "8", "9"}

AsciiLetters == {"a", "b", "c", "d", "e", "f", "g", "h", "i", "j", "k", "l", "m",
                 "n", "o", "p", "q", "r", "s", "t", "u", "v", "w", "x", "y", "z",
                 "A", "B", "C", "D", "E", "F", "G", "H", "I", "J", "K", "L", "M",
                 "N", "O", "P", "Q", "R", "S", "T", "U", "V", "W", "X", "Y", "Z"}

\* The regex crate's \d is Unicode's decimal digits (Nd): the ASCII digits and, of
\* the other characters texts are made of here, the Arabic-Indic digits one, two
\* and three and the fullwidth digit three.
Digits == AsciiDigits \cup {"U+0661", "U+0662", "U+0663", "U+FF13"}

\* The letters the regex crate's \w takes (Unicode's Alphabetic): the ASCII letters
\* and, of the other characters texts are made of here, e-acute and beta.
Letters == AsciiLetters \cup {"U+00E9", "U+03B2"}

(***************************************************************************)
(* The regex crate, as far as the three patterns of get_pyenv_version use *)
(* it: a pattern is a sequence of items, each a character class taken     *)
(* once or one-or-more times (greedy), anchored at the start of the text  *)
(* and, with end_anchor, at its end.  The match preferred is the one a    *)
(* backtracking search finds first (leftmost-first).  The classes are the *)
(* Unicode ones: the patterns do not switch Unicode off.                   *)
(***************************************************************************)
ClassMatches(cls, ch, c) ==
    CASE cls = "digit" -> c \in Digits                          \* \d
      [] cls = "word"  -> c \in Digits \cup Letters \cup {"_"}  \* \w
      [] cls = "any"   -> c # "\n"                              \* .
      [] cls = "lit"   -> c = ch                                \* \. - d e v
      [] OTHER         -> FALSE

DigitPlus == [cls |-> "digit", ch |-> "", plus |-> TRUE]
DigitOne == [cls |-> "digit", ch |-> "", plus |-> FALSE]
WordOne == [cls |-> "word", ch |-> "", plus |-> FALSE]
AnyOne == [cls |-> "any", ch |-> "", plus |-> FALSE]
Lit(c) == [cls |-> "lit", ch |-> c, plus |-> FALSE]

\* The longest run of characters of the class from position i (0-based) on.
RECURSIVE RunEnd(_, _, _)
RunEnd(item, s, i) ==
    IF i < Len(s) /\ ClassMatches(item.cls, item.ch, s[i + 1])
    THEN RunEnd(item, s, i + 1)
    ELSE i

\* The end of the preferred match of items k.. against s from position i, or -1.
RECURSIVE MatchFrom(_, _, _, _)
RECURSIVE TryPlus(_, _, _, _, _)
MatchFrom(re, k, s, i) ==
    IF k > Len(re.items)
    THEN IF re.end_anchor /\ i # Len(s) THEN -1 ELSE i
    ELSE LET item == re.items[k] IN
         IF item.plus
         THEN TryPlus(re, k, s, i, RunEnd(item, s, i))
         ELSE IF i < Len(s) /\ ClassMatches(item.cls, item.ch, s[i + 1])
              THEN MatchFrom(re, k + 1, s, i + 1)
              ELSE -1
\* Greedy: the longest repetition first, then one character less at a time.
TryPlus(re, k, s, i, j) ==
    IF j <= i
    THEN -1
    ELSE LET r == MatchFrom(re, k + 1, s, j) IN
         IF r # -1 THEN r ELSE TryPlus(re, k, s, i, j - 1)

\* Regex::captures(text) followed by captures.get(1): the group spans the whole
\* pattern, so it is the matched text.
Captures(re, s) ==
    LET e == MatchFrom(re, 1, s, 0) IN
    IF e = -1 THEN None ELSE Some(SubSeq(s, 1, e))

\* ^(\d+\.\d+\.\d+)$ with the patch group taken once instead of one-or-more times
StableRegexOneDigitPatch ==
    [items |-> <<DigitPlus, Lit("."), DigitPlus, Lit("."), DigitOne>>, end_anchor |-> TRUE]

\* ^(\d+\.\d+\.\d+)$
StableRegex ==
    [items |-> <<DigitPlus, Lit("."), DigitPlus, Lit("."), DigitPlus>>, end_anchor |-> TRUE]

\* ^(\d+\.\d+-dev)$
DevRegex ==
    [items |-> <<DigitPlus, Lit("."), DigitPlus, Lit("-"), Lit("d"), Lit("e"), Lit("v")>>,
     end_anchor |-> TRUE]

\* ^(\d+\.\d+.\d+\w\d+)   the second separator is an unescaped dot
PreReleaseRegex ==
    [items |-> <<DigitPlus, Lit("."), DigitPlus, AnyOne, DigitPlus, WordOne, DigitPlus>>,
     end_anchor |-> FALSE]

get_pyenv_version(folder_name) ==
    LET stable == Captures(StableRegex, folder_name) IN
    IF IsSome(stable)
    THEN stable
    ELSE LET dev == Captures(DevRegex, folder_name) IN
         IF IsSome(dev)
         THEN dev
         ELSE Captures(PreReleaseRegex, folder_name)

(***************************************************************************)
(* Folder names to classify: up to MaxTokens pieces of version-like text,  *)
(* with digits and letters inside and outside ASCII.                       *)
(***************************************************************************)
MaxTokens == 4

Tokens == { <<"3", ".", "1", "0">>, <<".">>, <<"3">>, <<"1", "0", "0">>, <<"a", "3">>, <<"-", "d", "e", "v">>, <<"-">>, <<"_", "3">>, <<"r", "c", "1">>,
            <<"U+0663">>, <<"U+00E9", "3">> }

TokenSeqs == UNION { [1..n -> Tokens] : n \in 0..MaxTokens }

FolderNames == { Flatten(ts) : ts \in TokenSeqs }

(***************************************************************************)
(* The first specification: get_pyenv_version applied to folder names.    *)
(***************************************************************************)
NoFunction == [x \in {} |-> x]

FreshLocator ==
    /\ environments = NoFunction
    /\ manager = None
    /\ call = [op |-> "with"]
    /\ ret = None
    /\ sink = << >>
    /\ phase = "uninitialized"

InitClassify ==
    /\ platform = "unix"
    /\ env_pyenv_root = None
    /\ env_pyenv = None
    /\ user_home = None
    /\ known_locations = << >>
    /\ files = {}
    /\ versions = NoFunction
    /\ python_binaries = NoFunction
    /\ pyvenv_cfgs = NoFunction
    /\ environments = NoFunction
    /\ manager = None
    /\ \E folder_name \in FolderNames :
          call = [op |-> "get_pyenv_version", arg |-> folder_name, returned |-> FALSE]
    /\ ret = None
    /\ sink = << >>
    /\ phase = "uninitialized"

Classify ==
    /\ ~call.returned
    /\ call' = [call EXCEPT !.returned = TRUE]
    /\ ret' = get_pyenv_version(call.arg)
    /\ UNCHANGED <<host, registry, sink, phase>>

NextClassify == Classify

SpecClassify == InitClassify /\ [][NextClassify]_vars


(***************************************************************************)
(* The shapes of folder names, stated on the characters.                   *)
(***************************************************************************)
AllDigits(s) == Len(s) > 0 /\ \A i \in 1..Len(s) : s[i] \in Digits

\* digits.digits.digits
IsStableName(s) ==
    \E i, j \in 1..Len(s) :
        /\ i < j
        /\ s[i] = "." /\ s[j] = "."
        /\ AllDigits(SubSeq(s, 1, i - 1))
        /\ AllDigits(SubSeq(s, i + 1, j - 1))
        /\ AllDigits(SubSeq(s, j + 1, Len(s)))

\* digits.digits-dev
IsDevName(s) ==
    /\ Len(s) > 4
    /\ SubSeq(s, Len(s) - 3, Len(s)) = <<"-", "d", "e", "v">>
    /\ \E i \in 1..(Len(s) - 4) :
        /\ s[i] = "."
        /\ AllDigits(SubSeq(s, 1, i - 1))
        /\ AllDigits(SubSeq(s, i + 1, Len(s) - 4))

\* starts with digits.digits.digits, then one letter, then at least one digit
IsPreReleaseName(s) ==
    \E i, j, k \in 1..Len(s) :
        /\ i < j /\ j < k /\ k < Len(s)
        /\ s[i] = "." /\ s[j] = "."
        /\ AllDigits(SubSeq(s, 1, i - 1))
        /\ AllDigits(SubSeq(s, i + 1, j - 1))
        /\ AllDigits(SubSeq(s, j + 1, k - 1))
        /\ s[k] \in Letters
        /\ s[k + 1] \in Digits

Classified == call.op = "get_pyenv_version" /\ call.returned

\* C2: a folder name that is exactly digits.digits.digits or exactly
\* digits.digits-dev is returned whole and unchanged by get_pyenv_version, and for
\* the stable names it is the first pattern that matches.
C2_StableAndDevNamesReturnedWhole ==
    Classified =>
        /\ IsStableName(call.arg) \/ IsDevName(call.arg) => ret = Some(call.arg)
        /\ IsStableName(call.arg) => Captures(StableRegex, call.arg) = Some(call.arg)

\* A stable name with a multi-digit patch, which the pre-release pattern matches too.
C2_Witness ==
    /\ Classified
    /\ IsStableName(call.arg)
    /\ IsSome(Captures(PreReleaseRegex, call.arg))
    /\ ret = Some(call.arg)

\* C3: get_pyenv_version returns a version only for a name that is exactly
\* digits.digits.digits, exactly digits.digits-dev, or that starts with
\* digits.digits.digits followed by one letter and a digit sequence.
C3_OnlyRuleNamesClassified ==
    Classified /\ IsSome(ret) =>
        IsStableName(call.arg) \/ IsDevName(call.arg) \/ IsPreReleaseName(call.arg)

(***************************************************************************)
(* Paths.  A PathBuf is its text.  Every component joined here is relative *)
(* and not empty (a constant name, or the name of a directory entry), and  *)
(* no path of the host carries a verbatim (\\?\) prefix.                   *)
(***************************************************************************)
MAIN_SEPARATOR == IF platform = "windows" THEN "\\" ELSE "/"

\* std::path::is_separator: / everywhere, \ on Windows too
is_sep_byte(c) == c = "/" \/ (platform = "windows" /\ c = "\\")

PathBuf_from(text) == text

\* a Windows path that is a drive prefix and nothing else, such as C:
IsDrive(path) ==
    /\ platform = "windows"
    /\ Len(path) = 2
    /\ path[1] \in AsciiLetters
    /\ path[2] = ":"

\* PathBuf::join of a relative component: the separator goes in between unless the
\* path is empty, ends in a separator already, or is a bare drive.
Join(path, component) ==
    IF path # << >> /\ ~is_sep_byte(path[Len(path)]) /\ ~IsDrive(path)
    THEN (path \o <<MAIN_SEPARATOR>>) \o component
    ELSE path \o component

RECURSIVE trim_end_separators(_)
trim_end_separators(path) ==
    IF path # << >> /\ is_sep_byte(path[Len(path)])
    THEN trim_end_separators(SubSeq(path, 1, Len(path) - 1))
    ELSE path

\* Path::file_name: the last component when it is a normal one; trailing separators
\* and a trailing . are passed over, and a path that ends in the root, a drive, . or ..
\* has none.
RECURSIVE file_name(_)
file_name(path) ==
    LET p == trim_end_separators(path)
        seps == { i \in 1..Len(p) : is_sep_byte(p[i]) }
        last == IF seps = {} THEN 0 ELSE CHOOSE i \in seps : \A j \in seps : j <= i
        name == SubSeq(p, last + 1, Len(p))
    IN  IF p = << >>
        THEN None
        ELSE IF name = <<".">> /\ last > 0
             THEN file_name(SubSeq(p, 1, last))
             ELSE IF name = <<".">> \/ name = <<".", ".">> \/ (last = 0 /\ IsDrive(name))
                  THEN None
                  ELSE Some(name)

\* OsStr::to_string_lossy: every byte that is not UTF-8 becomes U+FFFD
to_string_lossy(text) ==
    [i \in 1..Len(text) |->
        IF text[i] = InvalidByte THEN REPLACEMENT_CHARACTER ELSE text[i]]

\* OsString::into_string (taken as an Option): nothing when the text is not UTF-8
into_string(text) ==
    IF \E i \in 1..Len(text) : text[i] = InvalidByte THEN None ELSE Some(text)

\* Path::to_str
to_str(path) == into_string(path)

\* The path the file system resolves a text to: a run of separators counts as one,
\* a trailing one is dropped, and on Windows / stands for \.  (No . or .. component,
\* no symbolic link and no difference of case occurs on the disks modelled.)
RECURSIVE squeeze(_, _)
squeeze(path, after_separator) ==
    IF path = << >>
    THEN << >>
    ELSE IF is_sep_byte(Head(path))
         THEN (IF after_separator THEN << >> ELSE <<MAIN_SEPARATOR>>)
                  \o squeeze(Tail(path), TRUE)
         ELSE <<Head(path)>> \o squeeze(Tail(path), FALSE)

Resolved(path) ==
    LET s == squeeze(path, FALSE) IN
    IF Len(s) > 1 /\ s[Len(s)] = MAIN_SEPARATOR THEN SubSeq(s, 1, Len(s) - 1) ELSE s

\* The one of the places on disk, each given by its resolved path, that a path leads
\* to if it leads to any.
Place(path, places) == IF path \in places THEN path ELSE Resolved(path)

BIN == <<"b", "i", "n">>
PYENV == <<"p", "y", "e", "n", "v">>
DOT_PYENV == <<".", "p", "y", "e", "n", "v">>
PYENV_WIN == <<"p", "y", "e", "n", "v", "-", "w", "i", "n">>
VERSIONS == <<"v", "e", "r", "s", "i", "o", "n", "s">>
PYTHON == <<"p", "y", "t", "h", "o", "n">>

\* The host as the &dyn known::Environment handed to the locator.
environment ==
    [env_vars |-> [PYENV_ROOT |-> env_pyenv_root, PYENV |-> env_pyenv],
     user_home |-> user_home,
     global_search_locations |-> known_locations]

get_env_var(env, name) ==
    IF name \in DOMAIN env.env_vars THEN env.env_vars[name] ELSE None

get_home_pyenv_dir(env) ==
    IF env.user_home = None
    THEN None
    ELSE IF platform = "windows"
         THEN Some(Join(Join(PathBuf_from(Unwrap(env.user_home)), DOT_PYENV), PYENV_WIN))
         ELSE Some(Join(PathBuf_from(Unwrap(env.user_home)), DOT_PYENV))

\* PYENV consulted before PYENV_ROOT
get_pyenv_dir_pyenv_first(env) ==
    IF IsSome(get_env_var(env, "PYENV"))
    THEN Some(PathBuf_from(Unwrap(get_env_var(env, "PYENV"))))
    ELSE IF IsSome(get_env_var(env, "PYENV_ROOT"))
         THEN Some(PathBuf_from(Unwrap(get_env_var(env, "PYENV_ROOT"))))
         ELSE get_home_pyenv_dir(env)

get_pyenv_dir(env) ==
    IF IsSome(get_env_var(env, "PYENV_ROOT"))
    THEN Some(PathBuf_from(Unwrap(get_env_var(env, "PYENV_ROOT"))))
    ELSE IF IsSome(get_env_var(env, "PYENV"))
         THEN Some(PathBuf_from(Unwrap(get_env_var(env, "PYENV"))))
         ELSE get_home_pyenv_dir(env)

\* Path::exists / fs::metadata(..).is_ok()
exists(path) == Place(path, files) \in files

RECURSIVE first_known_binary(_)
first_known_binary(locations) ==
    IF locations = << >>
    THEN None
    ELSE LET bin == Join(Head(locations), PYENV) IN
         IF exists(bin) THEN Some(bin) ELSE first_known_binary(Tail(locations))

\* the known locations scanned from the last to the first
get_binary_from_known_paths_backwards(env) ==
    first_known_binary([i \in 1..Len(env.global_search_locations) |->
        env.global_search_locations[Len(env.global_search_locations) + 1 - i]])

get_binary_from_known_paths(env) == first_known_binary(env.global_search_locations)

\* the known locations scanned whether or not the root resolves
get_pyenv_binary_without_root(env) ==
    LET dir == get_pyenv_dir(env) IN
    IF IsSome(dir) /\ exists(Join(Join(Unwrap(dir), BIN), PYENV))
    THEN Some(Join(Join(Unwrap(dir), BIN), PYENV))
    ELSE get_binary_from_known_paths(env)

get_pyenv_binary(env) ==
    LET dir == get_pyenv_dir(env) IN
    IF dir = None
    THEN None
    ELSE LET exe == Join(Join(PathBuf_from(Unwrap(dir)), BIN), PYENV) IN
         IF exists(exe) THEN Some(exe) ELSE get_binary_from_known_paths(env)

(***************************************************************************)
(* The second specification: root and binary resolution over every host   *)
(* drawn from the values below, with and without a trailing separator.    *)
(***************************************************************************)
PyenvRootValue == IF platform = "windows" THEN <<"D", ":", "\\", "p", "y", "e", "n", "v">> ELSE <<"/", "o", "p", "t", "/", "p", "y", "e", "n", "v">>
PyenvValue == IF platform = "windows" THEN <<"C", ":", "\\", "t", "o", "o", "l", "s", "\\", "p", "y", "e", "n", "v", "-", "w", "i", "n">> ELSE <<"/", "u", "s", "r", "/", "p", "y", "e", "n", "v">>
HomeValue == IF platform = "windows" THEN <<"C", ":", "\\", "U", "s", "e", "r", "s", "\\", "u">> ELSE <<"/", "h", "o", "m", "e", "/", "u">>
HomeRoot ==
    IF platform = "windows"
    THEN <<"C", ":", "\\", "U", "s", "e", "r", "s", "\\", "u", "\\", ".", "p", "y", "e", "n", "v", "\\", "p", "y", "e", "n", "v", "-", "w", "i", "n">>
    ELSE <<"/", "h", "o", "m", "e", "/", "u", "/", ".", "p", "y", "e", "n", "v">>
KnownA == PathBuf_from(IF platform = "windows" THEN <<"C", ":", "\\", "b", "i", "n">> ELSE <<"/", "u", "s", "r", "/", "l", "o", "c", "a", "l", "/", "b", "i", "n">>)
KnownB == PathBuf_from(IF platform = "windows" THEN <<"C", ":", "\\", "u", "s", "r">> ELSE <<"/", "u", "s", "r", "/", "b", "i", "n">>)

\* the text with the platform's separator and the name after it
Under(dir, name) == (dir \o <<MAIN_SEPARATOR>>) \o name

PyenvBinaryCandidates ==
    { Under(Under(PyenvRootValue, BIN), PYENV),
      Under(Under(PyenvValue, BIN), PYENV),
      Under(Under(HomeRoot, BIN), PYENV),
      Under(KnownA, PYENV),
      Under(KnownB, PYENV) }

InitResolve ==
    /\ platform \in {"unix", "windows"}
    /\ env_pyenv_root \in {None, Some(PyenvRootValue), Some(PyenvRootValue \o <<MAIN_SEPARATOR>>)}
    /\ env_pyenv \in {None, Some(PyenvValue)}
    /\ user_home \in {None, Some(HomeValue), Some(HomeValue \o <<"/">>)}
    /\ known_locations \in {<< >>, <<KnownA, KnownB>>, <<KnownB, KnownA>>,
                            <<KnownA \o <<MAIN_SEPARATOR>>, KnownB>>}
    /\ files \in SUBSET PyenvBinaryCandidates
    /\ versions = NoFunction
    /\ python_binaries = NoFunction
    /\ pyvenv_cfgs = NoFunction
    /\ FreshLocator

ResolveDir ==
    /\ call' = [op |-> "get_pyenv_dir"]
    /\ ret' = get_pyenv_dir(environment)
    /\ UNCHANGED <<host, registry, sink, phase>>

ResolveBinary ==
    /\ call' = [op |-> "get_pyenv_binary"]
    /\ ret' = get_pyenv_binary(environment)
    /\ UNCHANGED <<host, registry, sink, phase>>

NextResolve == ResolveDir \/ ResolveBinary

SpecResolve == InitResolve /\ [][NextResolve]_vars

\* two texts that name the same place on disk
SamePath(one, other) == Resolved(one) = Resolved(other)

\* C4: the root is PYENV_ROOT's value when set, whatever PYENV and the home are;
\* otherwise PYENV's value when set; otherwise <home>/.pyenv (<home>\.pyenv\pyenv-win
\* on Windows); nothing exactly when neither variable is set and there is no home.
\* What exists on disk plays no part.
C4_RootPrecedence ==
    call.op = "get_pyenv_dir" =>
        /\ IsSome(env_pyenv_root) => ret = Some(Unwrap(env_pyenv_root))
        /\ env_pyenv_root = None /\ IsSome(env_pyenv) => ret = Some(Unwrap(env_pyenv))
        /\ env_pyenv_root = None /\ env_pyenv = None /\ IsSome(user_home) =>
              /\ IsSome(ret)
              /\ SamePath(Unwrap(ret),
                          IF platform = "windows"
                          THEN Under(Under(Unwrap(user_home), DOT_PYENV), PYENV_WIN)
                          ELSE Under(Unwrap(user_home), DOT_PYENV))
        /\ ret = None <=> env_pyenv_root = None /\ env_pyenv = None /\ user_home = None

\* PYENV_ROOT decides although PYENV and the home are there too.
C4_Witness ==
    /\ call.op = "get_pyenv_dir"
    /\ IsSome(env_pyenv_root) /\ IsSome(env_pyenv) /\ IsSome(user_home)
    /\ ret = Some(Unwrap(env_pyenv_root))
    /\ ret # Some(Unwrap(env_pyenv))

HasPyenv(location) == Resolved(Under(location, PYENV)) \in files

\* C5: get_pyenv_binary returns nothing when the root does not resolve, even if a
\* known search directory holds a pyenv; otherwise <root>/bin/pyenv when it exists;
\* otherwise <dir>/pyenv for the first known search directory, in the order
\* supplied, that holds a pyenv, and nothing when none does.
C5_BinaryLookup ==
    call.op = "get_pyenv_binary" =>
        LET root == get_pyenv_dir(environment)
            hits == { i \in 1..Len(known_locations) : HasPyenv(known_locations[i]) }
        IN  IF root = None
            THEN ret = None
            ELSE LET exe == Under(Under(Unwrap(root), BIN), PYENV) IN
                 IF Resolved(exe) \in files
                 THEN IsSome(ret) /\ SamePath(Unwrap(ret), exe)
                 ELSE IF hits = {}
                      THEN ret = None
                      ELSE \E i \in hits :
                              /\ \A j \in hits : i <= j
                              /\ IsSome(ret)
                              /\ SamePath(Unwrap(ret), Under(known_locations[i], PYENV))

\* No root, a pyenv in a known search directory, and nothing returned.
C5_Witness ==
    /\ call.op = "get_pyenv_binary"
    /\ get_pyenv_dir(environment) = None
    /\ \E i \in 1..Len(known_locations) : HasPyenv(known_locations[i])
    /\ ret = None

(***************************************************************************)
(* The records the locator builds (crate::messaging).                      *)
(***************************************************************************)
EnvManager_new(executable_path, version, tool) ==
    [executable_path |-> executable_path, version |-> version, tool |-> tool]

PythonEnvironment_new(name, python_executable_path, category, version, env_path, sys_prefix_path, env_manager, python_run_command) ==
    [name |-> name,
     python_executable_path |-> python_executable_path,
     category |-> category,
     version |-> version,
     env_path |-> env_path,
     sys_prefix_path |-> sys_prefix_path,
     env_manager |-> env_manager,
     python_run_command |-> python_run_command]

(***************************************************************************)
(* The collaborators of crate::utils, as functions of the disk.            *)
(***************************************************************************)
find_python_binary_path(path) ==
    IF path \in DOMAIN python_binaries THEN Some(python_binaries[path]) ELSE None

find_and_parse_pyvenv_cfg(executable) ==
    IF executable \in DOMAIN pyvenv_cfgs
    THEN Some([version |-> pyvenv_cfgs[executable]])
    ELSE None

\* fs::read_dir(dir).ok(): the entries in the order the directory yields them, each
\* an error or a name
read_dir(dir) ==
    LET place == Place(dir, DOMAIN versions) IN
    IF place \in DOMAIN versions THEN Some(versions[place]) ELSE None

(***************************************************************************)
(* Building the records.  Each yields a record, nothing, or Panic.         *)
(***************************************************************************)
get_pure_python_environment(executable, path, mgr) ==
    IF file_name(path) = None
    THEN Panic
    ELSE LET version == get_pyenv_version(to_string_lossy(Unwrap(file_name(path)))) IN
         IF version = None
         THEN None
         ELSE IF into_string(executable) = None
              THEN Panic
              ELSE Some(PythonEnvironment_new(None, Some(executable), "Pyenv", version,
                                              Some(path), Some(path), mgr,
                                              Some(<<Unwrap(into_string(executable))>>)))

get_virtual_env_environment(executable, path, mgr) ==
    LET pyenv_cfg == find_and_parse_pyvenv_cfg(executable) IN
    IF pyenv_cfg = None
    THEN None
    ELSE IF file_name(path) = None \/ into_string(executable) = None
         THEN Panic
         ELSE Some(PythonEnvironment_new(Some(to_string_lossy(Unwrap(file_name(path)))),
                                         Some(executable), "PyenvVirtualEnv",
                                         Some(Unwrap(pyenv_cfg).version), Some(path),
                                         Some(path), mgr,
                                         Some(<<Unwrap(into_string(executable))>>)))

\* The match of list_pyenv_environments: pure first, then virtual environment.
environment_for(executable, path, mgr) ==
    LET pure == get_pure_python_environment(executable, path, mgr) IN
    IF pure # None THEN pure ELSE get_virtual_env_environment(executable, path, mgr)

\* One turn of the loop of list_pyenv_environments: what the entry adds to envs, or
\* Panic.  The entry's path is the directory as read_dir was given it, joined with
\* the entry's name.
entry_environments(entry, versions_dir, mgr) ==
    IF ~entry.ok
    THEN << >>
    ELSE LET path == Join(PathBuf_from(versions_dir), entry.name) IN
         IF ~entry.is_dir
         THEN << >>
         ELSE LET executable == find_python_binary_path(path) IN
              IF executable = None
              THEN << >>
              ELSE environment_for(Unwrap(executable), path, mgr)

\* The loop: the vector envs, or Panic from the first entry that panics.
RECURSIVE scan_entries(_, _, _)
scan_entries(entries, versions_dir, mgr) ==
    IF entries = << >>
    THEN Some(<< >>)
    ELSE LET first == entry_environments(Head(entries), versions_dir, mgr) IN
         IF IsPanic(first)
         THEN Panic
         ELSE LET rest == scan_entries(Tail(entries), versions_dir, mgr) IN
              IF IsPanic(rest) THEN Panic ELSE Some(first \o Unwrap(rest))

list_pyenv_environments(mgr, env) ==
    LET pyenv_dir == get_pyenv_dir(env) IN
    IF pyenv_dir = None
    THEN None
    ELSE LET versions_dir == into_string(Join(PathBuf_from(Unwrap(pyenv_dir)), VERSIONS)) IN
         IF versions_dir = None
         THEN None
         ELSE LET entries == read_dir(Unwrap(versions_dir)) IN
              IF entries = None
              THEN None
              ELSE scan_entries(Unwrap(entries), Unwrap(versions_dir), mgr)

(***************************************************************************)
(* The locator.                                                            *)
(***************************************************************************)
\* the key taken from the directory instead of the executable
environment_key_of_env_path(env) == to_string_lossy(Unwrap(env.env_path))

\* The key gather stores a record under.  The record has an executable path and its
\* text is UTF-8: building the record has unwrapped the same conversion.
environment_key(env) == Unwrap(to_str(Unwrap(env.python_executable_path)))

\* a record already stored under the key is kept
insert_if_absent(map, key, value) ==
    [k \in DOMAIN map \cup {key} |-> IF k \in DOMAIN map THEN map[k] ELSE value]

\* HashMap::insert
insert(map, key, value) ==
    [k \in DOMAIN map \cup {key} |-> IF k = key THEN value ELSE map[k]]

RECURSIVE insert_all(_, _)
insert_all(map, envs) ==
    IF envs = << >>
    THEN map
    ELSE insert_all(insert(map, environment_key(Head(envs)), Head(envs)), Tail(envs))

\* The manager gather resolves.
gather_manager ==
    LET pyenv_binary == get_pyenv_binary(environment) IN
    IF IsSome(pyenv_binary)
    THEN Some(EnvManager_new(Unwrap(pyenv_binary), None, "Pyenv"))
    ELSE None

\* The manager is stored before the environments are listed; a panic while listing
\* ends the call, and the locator with it, with the map as it was.
Gather ==
    LET listed == list_pyenv_environments(gather_manager, environment) IN
    /\ call' = [op |-> "gather"]
    /\ phase # "panicked"
    /\ manager' = gather_manager
    /\ IF IsPanic(listed)
       THEN environments' = environments /\ ret' = None /\ phase' = "panicked"
       ELSE IF listed = None
            THEN environments' = environments /\ ret' = None /\ phase' = "ready"
            ELSE /\ environments' = insert_all(environments, Unwrap(listed))
                 /\ ret' = Some(<< >>)
                 /\ phase' = "ready"
    /\ sink' = << >>
    /\ UNCHANGED host

\* to_str().unwrap_or_default(): a path that is not UTF-8 is looked up as ""
is_known(python_executable) ==
    (IF to_str(python_executable) = None THEN << >> ELSE Unwrap(to_str(python_executable)))
        \in DOMAIN environments

IsKnown(python_executable) ==
    /\ call' = [op |-> "is_known", arg |-> python_executable]
    /\ phase # "panicked"
    /\ ret' = is_known(python_executable)
    /\ sink' = << >>
    /\ UNCHANGED <<host, registry, phase>>

\* The candidate is not looked at.
TrackIfCompatible(python_executable) ==
    /\ call' = [op |-> "track_if_compatible"]
    /\ phase # "panicked"
    /\ ret' = FALSE
    /\ sink' = << >>
    /\ UNCHANGED <<host, registry, phase>>

\* the manager reported after the environments
report_manager_last(keys) ==
    [i \in 1..Len(keys) |-> [kind |-> "environment", payload |-> environments[keys[i]]]]
    \o (IF IsSome(manager) THEN <<[kind |-> "manager", payload |-> Unwrap(manager)]>>
        ELSE << >>)

\* What report sends when the map's values come in the order of keys.
report(keys) ==
    (IF IsSome(manager) THEN <<[kind |-> "manager", payload |-> Unwrap(manager)]>>
     ELSE << >>)
    \o [i \in 1..Len(keys) |-> [kind |-> "environment", payload |-> environments[keys[i]]]]

\* The orders HashMap::values may take.
Orders(keys) ==
    { order \in [1..Cardinality(keys) -> keys] :
        \A i, j \in 1..Cardinality(keys) : i # j => order[i] # order[j] }

Report ==
    /\ call' = [op |-> "report"]
    /\ phase # "panicked"
    /\ \E keys \in Orders(DOMAIN environments) : sink' = report(keys)
    /\ ret' = None
    /\ UNCHANGED <<host, registry, phase>>

\* The host sets or unsets PYENV_ROOT between two calls.
SetPyenvRoot(value) ==
    /\ phase # "panicked"
    /\ env_pyenv_root # value
    /\ env_pyenv_root' = value
    /\ call' = [op |-> "host"]
    /\ ret' = None
    /\ sink' = << >>
    /\ UNCHANGED <<platform, env_pyenv, user_home, known_locations, files, versions,
                   python_binaries, pyvenv_cfgs, registry, phase>>

Without(f, x) == [y \in DOMAIN f \ {x} |-> f[y]]

\* The host removes the i-th entry of a versions directory from the disk, with the
\* executable and the pyvenv.cfg inside it.
Uninstall(dir, i) ==
    /\ phase # "panicked"
    /\ dir \in DOMAIN versions
    /\ i \in 1..Len(versions[dir])
    /\ LET path == Join(dir, versions[dir][i].name)
           inside == Join(Join(Join(dir, versions[dir][i].name), BIN), PYTHON)
       IN  /\ versions' = [versions EXCEPT ![dir] =
                              SubSeq(@, 1, i - 1) \o SubSeq(@, i + 1, Len(@))]
           /\ python_binaries' = Without(python_binaries, path)
           /\ pyvenv_cfgs' = Without(pyvenv_cfgs, inside)
    /\ call' = [op |-> "host"]
    /\ ret' = None
    /\ sink' = << >>
    /\ UNCHANGED <<platform, env_pyenv_root, env_pyenv, user_home, known_locations, files,
                   registry, phase>>

(***************************************************************************)
(* The disk of the main specification: <PYENV_ROOT>/versions holds up to   *)
(* MaxEntries of the entries below, in any order, or is missing.  The home *)
(* directory, when there is one, has a name that is not UTF-8, and its     *)
(* .pyenv/versions lists the same entries.                                 *)
(***************************************************************************)
MaxEntries == 2

SharedPython == PathBuf_from(<<"/", "u", "s", "r", "/", "b", "i", "n", "/", "p", "y", "t", "h", "o", "n", "3">>)

EntryKinds ==
    { [name |-> <<"3", ".", "1", "1", ".", "4">>, ok |-> TRUE, is_dir |-> TRUE, python |-> "own", cfg |-> None],
      [name |-> <<"m", "y", "e", "n", "v">>, ok |-> TRUE, is_dir |-> TRUE, python |-> "own",
       cfg |-> Some(<<"3", ".", "1", "1", ".", "4">>)],
      [name |-> <<"3", ".", "1", "2", ".", "0", "a", "3", "-", "x">>, ok |-> TRUE, is_dir |-> TRUE, python |-> "shared",
       cfg |-> None],
      [name |-> <<"e", "n", "v", "s">>, ok |-> TRUE, is_dir |-> TRUE, python |-> "shared", cfg |-> None],
      [name |-> <<"j", "u", "n", "k">>, ok |-> TRUE, is_dir |-> TRUE, python |-> "own", cfg |-> None],
      [name |-> <<"e", "m", "p", "t", "y">>, ok |-> TRUE, is_dir |-> TRUE, python |-> "none", cfg |-> None],
      [name |-> <<"s", "t", "r", "a", "y">>, ok |-> TRUE, is_dir |-> FALSE, python |-> "none", cfg |-> None],
      [name |-> <<"l", "o", "s", "t">>, ok |-> FALSE, is_dir |-> TRUE, python |-> "own", cfg |-> None],
      [name |-> <<"3", ".", "1", "0", ".", "0", "a", "3">> \o <<InvalidByte>>, ok |-> TRUE, is_dir |-> TRUE,
       python |-> "own", cfg |-> None],
      [name |-> <<"v", "e", "n", "v">> \o <<InvalidByte>>, ok |-> TRUE, is_dir |-> TRUE,
       python |-> "own", cfg |-> Some(<<"3", ".", "9", ".", "1">>)] }

\* the pyvenv.cfg beside the shared executable
SharedCfg == <<"3", ".", "9", ".", "1">>

\* a home directory whose name is not UTF-8
BadHome == <<"/", "h", "o", "m", "e", "/", "u">> \o <<InvalidByte>>

Listings ==
    UNION { { l \in [1..n -> EntryKinds] : \A i, j \in 1..n : i # j => l[i] # l[j] } :
            n \in 0..MaxEntries }

RootVersionsDir == Under(PyenvRootValue, VERSIONS)

HomeVersionsDir == Under(Under(BadHome, DOT_PYENV), VERSIONS)

DirEntries(listing) ==
    [i \in 1..Len(listing) |->
        [ok |-> listing[i].ok, name |-> listing[i].name, is_dir |-> listing[i].is_dir]]

OwnPython(versions_dir, name) ==
    Join(Join(Join(PathBuf_from(versions_dir), name), BIN), PYTHON)

PythonsOf(versions_dir, listing) ==
    LET with == { i \in 1..Len(listing) : listing[i].python # "none" }
        dirs == { Join(versions_dir, listing[i].name) : i \in with }
    IN  [d \in dirs |->
            LET i == CHOOSE i \in with : Join(versions_dir, listing[i].name) = d
            IN  IF listing[i].python = "shared"
                THEN SharedPython
                ELSE OwnPython(versions_dir, listing[i].name)]

CfgsOf(versions_dir, listing) ==
    LET with == { i \in 1..Len(listing) :
                    listing[i].python = "own" /\ IsSome(listing[i].cfg) }
        exes == { OwnPython(versions_dir, listing[i].name) : i \in with }
                \cup {SharedPython}
    IN  [e \in exes |->
            IF e = SharedPython
            THEN SharedCfg
            ELSE LET i == CHOOSE i \in with :
                            OwnPython(versions_dir, listing[i].name) = e
                 IN  Unwrap(listing[i].cfg)]

Init ==
    /\ platform = "unix"
    /\ env_pyenv_root \in {None, Some(PyenvRootValue)}
    /\ env_pyenv = None
    /\ user_home \in {None, Some(BadHome)}
    /\ known_locations = <<KnownA>>
    /\ files \in SUBSET { Under(Under(PyenvRootValue, BIN), PYENV), Under(KnownA, PYENV) }
    /\ \E listing \in Listings, present \in BOOLEAN :
          /\ present \/ listing = << >>
          /\ IsSome(user_home) => Len(listing) < MaxEntries
          /\ versions = IF present
                        THEN [d \in {RootVersionsDir}
                                    \cup (IF IsSome(user_home) THEN {HomeVersionsDir} ELSE {})
                                |-> DirEntries(listing)]
                        ELSE NoFunction
          /\ python_binaries = PythonsOf(RootVersionsDir, listing)
          /\ pyvenv_cfgs = CfgsOf(RootVersionsDir, listing)
    /\ FreshLocator

\* The paths a caller asks is_known about: the executables on disk, the keys of the
\* map, and one that is none of them.
QueryPaths ==
    { python_binaries[d] : d \in DOMAIN python_binaries }
    \cup DOMAIN environments
    \cup { PathBuf_from(<<"/", "u", "s", "r", "/", "b", "i", "n", "/", "p", "y", "t", "h", "o", "n">>) }

Next ==
    \/ Gather
    \/ \E p \in QueryPaths : IsKnown(p)
    \/ \E p \in {SharedPython} : TrackIfCompatible(p)
    \/ Report
    \/ \E value \in {None, Some(PyenvRootValue)} : SetPyenvRoot(value)
    \/ \E i \in 1..MaxEntries : Uninstall(RootVersionsDir, i)

Spec == Init /\ [][Next]_vars

(***************************************************************************)
(* Claims about the locator.                                               *)
(***************************************************************************)
ExeString(env) == Unwrap(to_str(Unwrap(env.python_executable_path)))

\* What the pass of a gather() that has just returned produced: the host has not
\* changed since, and manager is the manager that pass resolved.
GatherReturned == call.op = "gather" /\ phase = "ready"
Produced == list_pyenv_environments(manager, environment)

RootUnresolved == env_pyenv_root = None /\ env_pyenv = None /\ user_home = None

\* C1 as claimed: with no PYENV_ROOT, no PYENV and no home, gather() returns nothing
\* and leaves both the map and the stored manager as they were.
C1_FailedGatherLeavesRegistry ==
    [][(Gather /\ RootUnresolved) =>
          (ret' = None /\ phase' = "ready" /\ UNCHANGED registry)]_vars

\* C1, amended: with no PYENV_ROOT, no PYENV and no home, gather() returns nothing
\* and leaves the map as it was, and the stored manager becomes nothing.
C1_FailedGatherKeepsMapClearsManager ==
    [][(Gather /\ RootUnresolved) =>
          /\ ret' = None
          /\ phase' = "ready"
          /\ environments' = environments
          /\ manager' = None]_vars

\* A gather() without a root has returned nothing on a locator whose map still holds
\* the records, with their manager, of an earlier pass.
C1_Witness ==
    /\ GatherReturned
    /\ RootUnresolved
    /\ ret = None
    /\ manager = None
    /\ \E key \in DOMAIN environments : IsSome(environments[key].env_manager)

\* C6: a successful gather() adds exactly the executable-path strings of its pass to
\* the keys of the map, so the map never gains more keys than the pass produced
\* distinct strings, and under each such string it holds the record of the entry
\* processed last with that string.
C6_LastWriteWins ==
    [][(Gather /\ ret' # None) =>
          LET envs == Unwrap(list_pyenv_environments(gather_manager, environment))
              keys == { ExeString(envs[i]) : i \in 1..Len(envs) }
          IN  /\ DOMAIN environments' = DOMAIN environments \cup keys
              /\ Cardinality(DOMAIN environments' \ DOMAIN environments)
                    <= Cardinality(keys)
              /\ environments = NoFunction =>
                    Cardinality(DOMAIN environments') = Cardinality(keys)
              /\ \A i \in 1..Len(envs) :
                    (\A j \in (i + 1)..Len(envs) : ExeString(envs[j]) # ExeString(envs[i]))
                        => environments'[ExeString(envs[i])] = envs[i]
              /\ \A key \in DOMAIN environments \ keys :
                    environments'[key] = environments[key]]_vars

\* Two entries of one pass resolve to the same executable string, and the map holds
\* one record for it, the later one.
C6_Witness ==
    /\ GatherReturned
    /\ ret # None
    /\ \E i, j \in 1..Len(Unwrap(Produced)) :
          /\ i < j
          /\ ExeString(Unwrap(Produced)[i]) = ExeString(Unwrap(Produced)[j])
          /\ Unwrap(Produced)[i] # Unwrap(Produced)[j]
          /\ environments[ExeString(Unwrap(Produced)[j])] = Unwrap(Produced)[j]
          /\ Cardinality(DOMAIN environments) < Len(Unwrap(Produced))

C7_State ==
    /\ phase = "uninitialized" =>
          /\ \A p \in QueryPaths : ~is_known(p)
          /\ call.op = "is_known" => ret = FALSE
    /\ GatherReturned /\ ret # None =>
          \A i \in 1..Len(Unwrap(Produced)) :
              is_known(Unwrap(Unwrap(Produced)[i].python_executable_path))

\* C7: until gather() has been called is_known is false for every path; after a
\* gather() that succeeded it is true for the executable path of every record the
\* pass produced; and is_known changes neither the map nor the manager.
C7_IsKnown ==
    /\ []C7_State
    /\ [][(GatherReturned /\ ret # None) =>
             \A p \in QueryPaths :
                 (IsKnown(p) /\ \E i \in 1..Len(Unwrap(Produced)) :
                                    Some(p) = Unwrap(Produced)[i].python_executable_path)
                    => ret' = TRUE]_vars
    /\ [][(\E p \in QueryPaths : IsKnown(p)) => UNCHANGED registry]_vars

\* is_known has answered true for the executable of a record, after a gather().
C7_Witness ==
    /\ call.op = "is_known"
    /\ phase = "ready"
    /\ ret = TRUE
    /\ call.arg \in DOMAIN environments
    /\ environments[call.arg].python_executable_path = Some(call.arg)

ManagerMessages(messages) == { i \in 1..Len(messages) : messages[i].kind = "manager" }
EnvironmentMessages(messages) ==
    { i \in 1..Len(messages) : messages[i].kind = "environment" }

\* The manager once and first when there is one, then one message per entry of map.
ReportShape(messages, mgr, map) ==
    /\ IF IsSome(mgr)
       THEN ManagerMessages(messages) = {1} /\ messages[1].payload = Unwrap(mgr)
       ELSE ManagerMessages(messages) = {}
    /\ Cardinality(EnvironmentMessages(messages)) = Cardinality(DOMAIN map)
    /\ Len(messages) = Cardinality(ManagerMessages(messages)) + Cardinality(DOMAIN map)
    /\ \A key \in DOMAIN map :
          \E i \in EnvironmentMessages(messages) : messages[i].payload = map[key]
    /\ \A i \in EnvironmentMessages(messages) :
          \E key \in DOMAIN map : messages[i].payload = map[key]

SameReport(one, other) ==
    /\ { one[i] : i \in ManagerMessages(one) } = { other[i] : i \in ManagerMessages(other) }
    /\ { one[i] : i \in EnvironmentMessages(one) }
          = { other[i] : i \in EnvironmentMessages(other) }
    /\ Len(one) = Len(other)

\* C8: report() sends the stored manager exactly once and before any environment
\* when there is one, and no manager otherwise, then one environment message per
\* entry of the map; it changes neither the map nor the manager; only gather()
\* changes them, and a report() right after a report() sends the same manager and
\* the same set of records.
C8_Report ==
    /\ [][Report => (ReportShape(sink', manager, environments) /\ UNCHANGED registry)]_vars
    /\ [][(Report /\ call.op = "report") => SameReport(sink, sink')]_vars
    /\ [][(~Gather) => UNCHANGED registry]_vars

\* A report() has sent a manager and then two environments.
C8_Witness ==
    /\ call.op = "report"
    /\ IsSome(manager)
    /\ Len(sink) = 3
    /\ sink[1].kind = "manager"
    /\ sink[2].kind = "environment" /\ sink[3].kind = "environment"
    /\ sink[2] # sink[3]

\* What the claim says one entry of the versions directory yields.
ExpectedOf(entry, versions_dir, mgr) ==
    LET path == Under(versions_dir, entry.name)
        executable == find_python_binary_path(path)
        version == get_pyenv_version(to_string_lossy(entry.name))
        cfg == find_and_parse_pyvenv_cfg(Unwrap(executable))
    IN  IF ~entry.ok \/ ~entry.is_dir \/ executable = None
        THEN << >>
        ELSE IF IsSome(version)
             THEN << [name |-> None, python_executable_path |-> executable,
                      category |-> "Pyenv", version |-> version, env_path |-> Some(path),
                      sys_prefix_path |-> Some(path), env_manager |-> mgr,
                      python_run_command |-> Some(<<Unwrap(executable)>>)] >>
             ELSE IF IsSome(cfg)
                  THEN << [name |-> Some(to_string_lossy(entry.name)),
                           python_executable_path |-> executable,
                           category |-> "PyenvVirtualEnv",
                           version |-> Some(Unwrap(cfg).version), env_path |-> Some(path),
                           sys_prefix_path |-> Some(path), env_manager |-> mgr,
                           python_run_command |-> Some(<<Unwrap(executable)>>)] >>
                  ELSE << >>

RECURSIVE ExpectedOfAll(_, _, _)
ExpectedOfAll(entries, versions_dir, mgr) ==
    IF entries = << >>
    THEN << >>
    ELSE ExpectedOf(Head(entries), versions_dir, mgr)
            \o ExpectedOfAll(Tail(entries), versions_dir, mgr)

\* C9: whenever the root resolves and <root>/versions can be listed, gather()
\* returns, and its pass yields, entry by entry and in the directory's order,
\* nothing for an entry that is no directory or has no executable, else a pure
\* record (no name, the classified version) when the folder name classifies, whether
\* or not a pyvenv.cfg parses, else a virtual-environment record (the folder name,
\* the cfg's version) when the cfg parses, else nothing, the scan going on with the
\* entries that remain; and the map holds the records so produced.
C9_OneRecordPerEntry ==
    call.op = "gather" /\ IsSome(get_pyenv_dir(environment)) =>
        LET versions_dir == Under(Unwrap(get_pyenv_dir(environment)), VERSIONS)
        IN  IF Place(versions_dir, DOMAIN versions) \notin DOMAIN versions
            THEN phase = "ready" /\ ret = None
            ELSE LET expected == ExpectedOfAll(versions[Place(versions_dir, DOMAIN versions)],
                                               versions_dir, manager)
                 IN  /\ phase = "ready"
                     /\ ret # None
                     /\ Produced = Some(expected)
                     /\ \A i \in 1..Len(expected) :
                           /\ ExeString(expected[i]) \in DOMAIN environments
                           /\ (\A j \in (i + 1)..Len(expected) :
                                  ExeString(expected[j]) # ExeString(expected[i]))
                                 => environments[ExeString(expected[i])] = expected[i]

\* C10: within one pass of gather() no executable path is stored under two
\* different categories.
C10_OneCategoryPerKey ==
    GatherReturned /\ ret # None =>
        \A i, j \in 1..Len(Unwrap(Produced)) :
            ExeString(Unwrap(Produced)[i]) = ExeString(Unwrap(Produced)[j])
                => Unwrap(Produced)[i].category = Unwrap(Produced)[j].category

=============================================================================
